---- MODULE Spec2Model ----
(***************************************************************************)
(* Interaction resolver (nav.js / interaction.js) and wave ripple state    *)
(* machine (orbs.js) of the orb portfolio scene.                           *)
(*                                                                         *)
(* Orbs are indexed 0..NumOrbs-1 (blobs[i].projectIdx = i).  A null        *)
(* reference to an orb is NoBlob, a null hit point is the empty sequence   *)
(* and a stored hit point p is <<p>>.  Points are integers on one axis.    *)
(* Time is counted in half seconds, so the 2.5 s wave threshold is 5.      *)
(* The label's screen position, the canvas cursor style and the nav items' *)
(* 'active' class are presentation only and are left out.                  *)
(***************************************************************************)
EXTENDS Integers, Sequences, FiniteSets, TLC

\* ---------------------------------------------------------------- bounds
NumOrbs   == 2      \* orbs built by createOrbs (PROJECTS has 7 entries)
MaxCoord  == 2      \* world-space hit coordinates are 1..MaxCoord
MaxClock  == 8      \* last instant (half seconds) of the wave runs
MaxDt     == 2      \* longest frame delta (half seconds)
MaxFrames == 4      \* frames of the hover easing and typewriter runs
RateDen   == 2      \* the easing rates are k / RateDen, 0 < k < RateDen
MaxDots   == 3      \* most dots of an orb's label

Orbs      == 0..(NumOrbs - 1)
WorldPts  == 1..MaxCoord
NoBlob    == 0 - 1
NoPoint   == << >>

\* ------------------------------------------------------------ config.js
PROJECTS ==
  [i \in 0..6 |->
     CASE i = 0 -> [name |-> "About Me"]
       [] i = 1 -> [name |-> "Flex Platform"]
       [] i = 2 -> [name |-> "Neural Canvas"]
       [] i = 3 -> [name |-> "UrbanFlow"]
       [] i = 4 -> [name |-> "SoundForge"]
       [] i = 5 -> [name |-> "CryptoLens"]
       [] OTHER -> [name |-> "MediSync"]]

\* proj.name, which is undefined when the descriptor has no such field
hasName(proj) == "name" \in DOMAIN proj

\* orbLabel.textContent = proj.name: the DOM stores an undefined value,
\* as it does null, as the empty string
textContent(proj) == IF hasName(proj) THEN proj.name ELSE ""

\* String.prototype.toUpperCase on the names in use
toUpperCase(str) ==
  CASE str = "About Me"      -> "ABOUT ME"
    [] str = "Flex Platform" -> "FLEX PLATFORM"
    [] str = "Neural Canvas" -> "NEURAL CANVAS"
    [] OTHER                 -> str

\* x coordinate of every orb's world anchor, doubled to stay integral
ORB_ORIGINS ==
  [i \in 0..6 |->
     CASE i = 0 -> 0
       [] i = 1 -> 0 - 17
       [] i = 2 -> 16
       [] i = 3 -> 0 - 6
       [] i = 4 -> 10
       [] i = 5 -> 0 - 16
       [] OTHER -> 2]

VARIABLES
  hovered,      \* blobs[i].hovered
  hitLocal,     \* blobs[i].hitLocal
  hoveredBlob,  \* interaction.js: let hoveredBlob
  navIdx,       \* interaction.js: let navIdx
  panelOpen,    \* panelState.panelOpen
  focusedIdx,   \* panelState.focusedIdx
  labelText,    \* orbLabel.textContent
  labelShow,    \* orbLabel.classList contains 'show'
  navOver,      \* nav item under the mouse, NoBlob when none
  fx,           \* collaborator calls made by the last handler, in order
  prevBlob,     \* hoveredBlob as the last handler found it
  pointerOnly,  \* no handler but browse-mode onPointerMove has run so far
  lastEv,       \* the event handled last
  waveActive,   \* b.waveActive, b the orb whose ripple is followed
  waveElapsed,  \* b.waveElapsed
  uWaveTime,    \* b.mat.uniforms.uWaveTime.value
  uHitPoint,    \* b.mat.uniforms.uHitPoint.value
  clock,        \* time of the animation loop
  waveStartAt,  \* instant of the last startWave(b), NoBlob if none
  hoverEndAt,   \* instant the hover that started it ended, NoBlob if not yet
  built,        \* createOrbs has built the orb
  baseR,        \* b.baseR
  coeffs,       \* b.coeffs
  coeffsTarget, \* b.coeffsTarget
  unitAngles,   \* b.unitAngles
  geoPos,       \* b.geo.attributes.position
  hitPos,       \* b.hitGeo.attributes.position
  geoDirty,     \* needsUpdate of the two position buffers
  shCall,       \* the last call of shDeform: its arguments and result
  shSeen,       \* the first call of shDeform on the orb's coefficients
  rcCall,       \* the last call of randomCoeffs: its arguments and result
  hoverT,       \* b.hoverT, in units of 1 / HoverOne
  labelTotalDots,   \* b.labelTotalDots
  labelRevealed,    \* b.labelRevealed
  labelRevealDone,  \* b.labelRevealDone
  labelTyping,      \* the frame loop is typing the label of the open orb
  frame,        \* frames run by the animation loop
  projects,     \* config.js: PROJECTS as loaded
  blobs,        \* orbs.js: blobs, the orbs createOrbs has pushed
  started,      \* main.js has run its startup statements
  raised,       \* an exception left the startup uncaught
  fxT,          \* orbfx.js: t of the last call updateOrbFx(t, dt)
  fxTime,       \* t of the last call that updated and recoloured fx[i]
  fxFaulty,     \* the orbs whose updater throws, as of the last call
  fxThrew,      \* an exception left the last call of updateOrbFx
  queue,        \* terminal.js: let queue
  typing,       \* terminal.js: let typing
  loops,        \* the calls of processQueue that are suspended at an await
  lineLog,      \* the lines appendLine has been called for, in order
  pushed,       \* batches pushed to the queue so far
  resolved,     \* batches whose resolve has been called
  introT,       \* intro.js: let introT, in units of 1 / IntroOne s
  introDone,    \* intro.js: let introDone
  introP,       \* progress t last written to orb i, 0 when never written
  introRet,     \* what the last call of updateIntro returned
  introTouched  \* the orbs the last call of updateIntro wrote to

rvars == <<hovered, hitLocal, hoveredBlob, navIdx, panelOpen, focusedIdx,
           labelText, labelShow, navOver, fx, prevBlob, pointerOnly, lastEv>>
wvars == <<waveActive, waveElapsed, uWaveTime, uHitPoint, clock,
           waveStartAt, hoverEndAt>>
gvars == <<built, baseR, coeffs, coeffsTarget, unitAngles, geoPos, hitPos,
           geoDirty>>
cvars == <<shCall, shSeen, rcCall>>
avars == <<hoverT, labelTotalDots, labelRevealed, labelRevealDone,
           labelTyping, frame>>
bvars == <<projects, blobs, started, raised>>
fvars == <<fxT, fxTime, fxFaulty, fxThrew>>
tvars == <<queue, typing, loops, lineLog, pushed, resolved>>
ivars == <<introT, introDone, introP, introRet, introTouched>>
yvars == <<fvars, tvars, ivars>>
xvars == <<bvars, yvars>>
vars  == <<hovered, hitLocal, hoveredBlob, navIdx, panelOpen, focusedIdx,
           labelText, labelShow, navOver, fx, prevBlob, pointerOnly, lastEv,
           waveActive, waveElapsed, uWaveTime, uHitPoint, clock,
           waveStartAt, hoverEndAt,
           built, baseR, coeffs, coeffsTarget, unitAngles, geoPos, hitPos,
           geoDirty, shCall, shSeen, rcCall,
           hoverT, labelTotalDots, labelRevealed, labelRevealDone,
           labelTyping, frame,
           projects, blobs, started, raised,
           fxT, fxTime, fxFaulty, fxThrew,
           queue, typing, loops, lineLog, pushed, resolved,
           introT, introDone, introP, introRet, introTouched>>

\* --------------------------------------------------------------- inputs
\* rc.intersectObjects(blobs.map(b => b.hitMesh)): the orbs whose hit mesh
\* the ray intersects, nearest first, every hit mesh reported once.  The
\* handlers read the object of each intersection and the point of the first.
HitMeshes == 0..(Len(blobs) - 1)
HitLists ==
  {h \in UNION {[1..n -> HitMeshes] : n \in 0..NumOrbs} :
     \A j, k \in 1..Len(h) : j # k => h[j] # h[k]}

Call(c, a) == [call |-> c, arg |-> a]
playHover  == Call("playHover", NoBlob)
playClick  == Call("playClick", NoBlob)
playClose  == Call("playClose", NoBlob)

\* b.mesh.worldToLocal(hit.point): the point relative to the orb's group
worldToLocal_world(i, p) == p
worldToLocal(i, p) == p - ORB_ORIGINS[i]

\* --------------------------------------------------------- harmonics.js
\* Angles are whole quarter turns (theta = q * pi/2), whose sines and
\* cosines are exact; Math.random() returns k / RndDen.  Radii, base and
\* amp are in units of 1 / RadOne, coefficients in units of
\* 1 / (RadOne * CoefOne), the values of Y in units of 1 / YOne (the
\* constants of Y to three decimals).
N_COEFFS  == 12
RndDen    == 4
Rnds      == 0..(RndDen - 1)
RadOne    == 200 * RndDen
CoefOne   == 40 * RndDen
YOne      == 1000

\* Math.sin, Math.cos of q quarter turns
Sin(q) == LET m == q % 4 IN IF m = 1 THEN 1 ELSE IF m = 3 THEN 0 - 1 ELSE 0
Cos(q) == LET m == q % 4 IN IF m = 0 THEN 1 ELSE IF m = 2 THEN 0 - 1 ELSE 0

\* Y[i](t, p)
Y(i, t, p) ==
  CASE i = 0  -> 282
    [] i = 1  -> 489 * Sin(t) * Sin(p)
    [] i = 2  -> 489 * Cos(t)
    [] i = 3  -> 489 * Sin(t) * Cos(p)
    [] i = 4  -> 546 * Sin(t) * Sin(t) * Sin(2 * p)
    [] i = 5  -> 546 * Sin(t) * Cos(t) * Sin(p)
    [] i = 6  -> 315 * (3 * Cos(t) * Cos(t) - 1)
    [] i = 7  -> 546 * Sin(t) * Cos(t) * Cos(p)
    [] i = 8  -> 546 * Sin(t) * Sin(t) * Cos(2 * p)
    [] i = 9  -> 457 * Sin(t) * (5 * Cos(t) * Cos(t) - 1) * Sin(p)
    [] i = 10 -> 373 * (5 * Cos(t) * Cos(t) * Cos(t) - 3 * Cos(t))
    [] OTHER  -> 457 * Sin(t) * (5 * Cos(t) * Cos(t) - 1) * Cos(p)

\* for (let i = 0; i < N_COEFFS; i++) r += coeffs[i] * Y[i](theta, phi)
RECURSIVE shLoop(_, _, _, _, _)
shLoop(i, r, theta, phi, c) ==
  IF i < N_COEFFS
    THEN shLoop(i + 1, r + c[i] * Y(i, theta, phi), theta, phi, c)
    ELSE r

\* shDeform(theta, phi, coeffs), in units of 1 / (RadOne * CoefOne * YOne)
shDeform_accum(theta, phi, c) ==
  shLoop(0, IF shCall = << >> THEN 0 ELSE shCall[1].r, theta, phi, c)
shDeform(theta, phi, c) == shLoop(0, 0, theta, phi, c)

\* the factors 0.45, 0.60 and 0.35 of the three bands, in twentieths
Band(i) == IF i < 4 THEN 9 ELSE IF i < 9 THEN 12 ELSE 7

\* Math.random() - 0.5 for the draw k / RndDen, in units of 1 / (2 * RndDen)
Centered_raw(k) == 2 * k
Centered(k) == 2 * k - RndDen

\* randomCoeffs(base, amp), rnd[i] being the draw that sets c[i]
randomCoeffs(base, amp, rnd) ==
  [i \in 0..(N_COEFFS - 1) |->
     IF i = 0 THEN base * CoefOne
     ELSE Centered(rnd[i]) * amp * Band(i)]

\* the draws of one coefficient set: all are 0.5 but at most one
Streams ==
  {[i \in 1..(N_COEFFS - 1) |-> IF i = j THEN v ELSE RndDen \div 2] :
     j \in 1..(N_COEFFS - 1), v \in Rnds}
MidStream    == [i \in 1..(N_COEFFS - 1) |-> RndDen \div 2]
TargetStreams == {MidStream, [i \in 1..(N_COEFFS - 1) |-> 0]}

\* -------------------------------------------------- orbs.js: geometry
\* Vertices of THREE.SphereGeometry(1, seg, seg) and of
\* THREE.SphereGeometry(1, 16, 16) that lie on the axes: the poles and the
\* equator at quarter turns (the hit sphere here at half turns only).
VisualSphere ==
  << <<0, 1, 0>>, <<0 - 1, 0, 0>>, <<0, 0, 1>>, <<1, 0, 0>>,
     <<0, 0, 0 - 1>>, <<0, 0 - 1, 0>> >>
HitSphere ==
  << <<0, 1, 0>>, <<0 - 1, 0, 0>>, <<1, 0, 0>>, <<0, 0 - 1, 0>> >>

\* Math.acos(y / r0) and Math.atan2(z, x) of a vertex on an axis
Acos(y) == IF y = 1 THEN 0 ELSE IF y = 0 THEN 1 ELSE 2
Atan2(z, x) ==
  IF x > 0 THEN 0 ELSE IF z > 0 THEN 1 ELSE IF x < 0 THEN 2
  ELSE IF z < 0 THEN 0 - 1 ELSE 0

\* the Float64Array of (theta, phi) pairs of a sphere's vertices
anglesOf(sphere) ==
  [j \in 1..(2 * Len(sphere)) |->
     LET v == sphere[(j + 1) \div 2]
     IN  IF j % 2 = 1 THEN Acos(v[2]) ELSE Atan2(v[3], v[1])]

\* pos.setXYZ(i, r sin(theta) cos(phi), r cos(theta), r sin(theta) sin(phi))
SphToCart_swapped(r, theta, phi) ==
  <<r * Sin(theta) * Sin(phi), r * Cos(theta), r * Sin(theta) * Cos(phi)>>
SphToCart(r, theta, phi) ==
  <<r * Sin(theta) * Cos(phi), r * Cos(theta), r * Sin(theta) * Sin(phi)>>

\* morphGeo(geo, unitAngles, coeffs, baseR): the position buffer written
morphGeo(ua, c, bR) ==
  [i \in 1..(Len(ua) \div 2) |->
     LET theta == ua[2 * i - 1]
         phi   == ua[2 * i]
         r     == bR * CoefOne * YOne + shDeform(theta, phi, c)
     IN  SphToCart(r, theta, phi)]

\* What a call morphGeo(geo, unitAngles, coeffs, baseR) leaves: the
\* position buffer and its needsUpdate flag, and the two arrays it reads.
morphGeoEffect_scrub(ua, c, bR) ==
  [position    |-> morphGeo(ua, c, bR),
   needsUpdate |-> TRUE,
   unitAngles  |-> [j \in DOMAIN ua |-> IF j = 2 THEN ua[j] + 1 ELSE ua[j]],
   coeffs      |-> c]
morphGeoEffect(ua, c, bR) ==
  [position    |-> morphGeo(ua, c, bR),
   needsUpdate |-> TRUE,
   unitAngles  |-> ua,
   coeffs      |-> c]

\* the baseR createOrbs passes when it morphs the hit mesh
HitBaseR_unit(bR) == RadOne
HitBaseR(bR) == bR

\* One orb of createOrbs: k the draw of baseR, rnd and rnd2 the draws of
\* coeffs and coeffsTarget.
createOrbs(k, rnd, rnd2) ==
  LET bR    == (RadOne * (10 * RndDen + 7 * k)) \div (10 * RndDen)
      ampHi == (bR * 35) \div 100
      c     == randomCoeffs(bR, ampHi, rnd)
      ua    == anglesOf(VisualSphere)
      vis   == morphGeoEffect(ua, c, bR)
      hit   == morphGeoEffect(anglesOf(HitSphere), vis.coeffs, HitBaseR(bR))
  IN  [baseR        |-> bR,
       coeffs       |-> hit.coeffs,
       coeffsTarget |-> randomCoeffs(bR, ampHi, rnd2),
       unitAngles   |-> vis.unitAngles,
       geoPos       |-> vis.position,
       hitPos       |-> hit.position,
       geoDirty     |-> vis.needsUpdate /\ hit.needsUpdate]

\* PROJECTS.forEach((proj, idx) => { ... blobs.push({...}) }) of
\* createOrbs, from project idx on: proj.name.toUpperCase() throws a
\* TypeError when proj.name is undefined, which ends the forEach and leaves
\* createOrbs; acc holds the orbs pushed so far.
RECURSIVE createOrbsFrom(_, _, _)
createOrbsFrom(projs, idx, acc) ==
  IF idx \notin DOMAIN projs
    THEN [blobs |-> acc, threw |-> FALSE]
    ELSE IF ~hasName(projs[idx])
      THEN [blobs |-> acc, threw |-> TRUE]
      ELSE createOrbsFrom(projs, idx + 1,
             Append(acc, [projectIdx |-> idx,
                          label      |-> toUpperCase(projs[idx].name)]))

\* the project data and the orbs built from it
InitBuilt ==
  /\ projects = [i \in Orbs |-> PROJECTS[i]]
  /\ blobs    = createOrbsFrom(projects, 0, << >>).blobs
  /\ started  = TRUE
  /\ raised   = FALSE

\* orbfx.js after initOrbFx: no decoration has been updated yet
InitFx ==
  /\ fxT      = 0
  /\ fxTime   = [i \in Orbs |-> 0]
  /\ fxFaulty = {}
  /\ fxThrew  = FALSE

\* terminal.js as loaded: nothing queued, nothing typed
InitTerminal ==
  /\ queue    = << >>
  /\ typing   = FALSE
  /\ loops    = << >>
  /\ lineLog  = << >>
  /\ pushed   = 0
  /\ resolved = {}

\* intro.js after initIntro: every orb at the centre, nothing played
InitIntro ==
  /\ introT       = 0
  /\ introDone    = FALSE
  /\ introP       = [i \in Orbs |-> 0]
  /\ introRet     = TRUE
  /\ introTouched = {}

\* the modules that hold no orb state
InitRest ==
  /\ InitFx
  /\ InitTerminal
  /\ InitIntro

\* interaction.js and the interaction fields createOrbs gives every orb
InitInteraction ==
  /\ hovered     = [i \in Orbs |-> FALSE]
  /\ hitLocal    = [i \in Orbs |-> NoPoint]
  /\ hoveredBlob = NoBlob
  /\ navIdx      = 0
  /\ panelOpen   = FALSE
  /\ focusedIdx  = NoBlob
  /\ labelText   = ""
  /\ labelShow   = FALSE
  /\ navOver     = NoBlob
  /\ fx          = << >>
  /\ prevBlob    = NoBlob
  /\ pointerOnly = TRUE
  /\ lastEv      = "load"
  /\ waveActive  = FALSE
  /\ waveElapsed = 0
  /\ uWaveTime   = 0 - 20
  /\ uHitPoint   = 0
  /\ clock       = 0
  /\ waveStartAt = NoBlob
  /\ hoverEndAt  = NoBlob

\* the geometry createOrbs leaves: the draws of baseR and coeffs are 0.5,
\* those of coeffsTarget are 0
InitGeometry ==
  LET o == createOrbs(RndDen \div 2, MidStream,
                      [i \in 1..(N_COEFFS - 1) |-> 0])
  IN  /\ built        = TRUE
      /\ baseR        = o.baseR
      /\ coeffs       = o.coeffs
      /\ coeffsTarget = o.coeffsTarget
      /\ unitAngles   = o.unitAngles
      /\ geoPos       = o.geoPos
      /\ hitPos       = o.hitPos
      /\ geoDirty     = o.geoDirty

\* no call of shDeform or randomCoeffs is on record
InitCalls ==
  /\ shCall = << >>
  /\ shSeen = << >>
  /\ rcCall = << >>

\* hoverT: 0, labelRevealed: 0, labelRevealDone: false
InitAnimation ==
  /\ hoverT = 0
  /\ labelTotalDots \in 1..MaxDots
  /\ labelRevealed   = 0
  /\ labelRevealDone = FALSE
  /\ labelTyping     = FALSE
  /\ frame  = 0

\* the state createOrbs leaves
Init ==
  /\ InitInteraction
  /\ InitGeometry
  /\ InitCalls
  /\ InitAnimation
  /\ labelTotalDots = MaxDots
  /\ InitBuilt
  /\ InitRest

\* ------------------------------------------------------------- panel.js
\* openProject(idx): the detail panel opens for project idx
openProject(idx) ==
  /\ panelOpen'  = TRUE
  /\ focusedIdx' = idx

\* closePanel(): the detail panel closes (and plays the close cue)
closePanel ==
  /\ panelOpen'  = FALSE
  /\ focusedIdx' = NoBlob

\* ------------------------------------------------------- interaction.js
\* if (panelState.panelOpen): the resolver is in focus mode
InFocusMode_browse == FALSE
InFocusMode == panelOpen

\* hit.object === focusedBlob.hitMesh, hit being hits[0]
HitsFocused_any(hits, f) == \E k \in 1..Len(hits) : hits[k] = f
HitsFocused(hits, f) == hits[1] = f

\* focus-mode branch of onPointerMove
PointerMoveFocus(hits, pt) ==
  LET f == focusedIdx IN
  /\ IF f \in Orbs /\ Len(hits) > 0
       THEN IF HitsFocused(hits, f)
              THEN /\ hitLocal' = [hitLocal EXCEPT ![f] = <<worldToLocal(f, pt)>>]
                   /\ hovered'  = [hovered EXCEPT ![f] = TRUE]
              ELSE /\ hitLocal' = [hitLocal EXCEPT ![f] = NoPoint]
                   /\ UNCHANGED hovered
       ELSE IF f \in Orbs
              THEN /\ hitLocal' = [hitLocal EXCEPT ![f] = NoPoint]
                   /\ UNCHANGED hovered
              ELSE UNCHANGED <<hitLocal, hovered>>
  /\ fx' = << >>
  /\ UNCHANGED <<hoveredBlob, navIdx, panelOpen, focusedIdx, labelText,
                 labelShow, navOver>>

\* if (hoveredBlob !== b): the pointer came onto another orb
IsNewHover_always(b) == TRUE
IsNewHover(b) == hoveredBlob # b

\* hoveredBlob.hovered = false; b.hovered = true
HoverOnto_keepPrev(b) == [hovered EXCEPT ![b] = TRUE]
HoverOnto(b) ==
  [i \in Orbs |-> IF i = b THEN TRUE
                  ELSE IF i = hoveredBlob THEN FALSE
                  ELSE hovered[i]]

\* hoveredBlob.hitLocal = null; b.hitLocal = localPt
HitOnto_keepPrev(b, lp) == [hitLocal EXCEPT ![b] = <<lp>>]
HitOnto(b, lp) ==
  [i \in Orbs |-> IF i = b THEN <<lp>>
                  ELSE IF i = hoveredBlob THEN NoPoint
                  ELSE hitLocal[i]]

\* hoveredBlob.hovered = false, the pointer having left every orb
Unhover_none == hovered
Unhover == [hovered EXCEPT ![hoveredBlob] = FALSE]

\* browse-mode branch of onPointerMove
PointerMoveBrowse(hits, pt) ==
  /\ IF Len(hits) > 0
       THEN LET b  == hits[1]
                lp == worldToLocal(b, pt)
            IN  IF IsNewHover(b)
                  THEN /\ hovered' = HoverOnto(b)
                       /\ hitLocal' = HitOnto(b, lp)
                       /\ hoveredBlob' = b
                       /\ labelText'   = textContent(projects[b])
                       /\ labelShow'   = TRUE
                       /\ fx'          = <<playHover>>
                  ELSE /\ hitLocal' = [hitLocal EXCEPT ![b] = <<lp>>]
                       /\ fx' = << >>
                       /\ UNCHANGED <<hovered, hoveredBlob, labelText,
                                      labelShow>>
       ELSE IF hoveredBlob # NoBlob
              THEN /\ hovered'  = Unhover
                   /\ hitLocal' = [hitLocal EXCEPT ![hoveredBlob] = NoPoint]
                   /\ hoveredBlob' = NoBlob
                   /\ labelShow'   = FALSE
                   /\ fx'          = << >>
                   /\ UNCHANGED labelText
              ELSE /\ fx' = << >>
                   /\ UNCHANGED <<hovered, hitLocal, hoveredBlob, labelText,
                                  labelShow>>
  /\ UNCHANGED <<navIdx, panelOpen, focusedIdx, navOver>>

\* What no input handler assigns: the wave and animation fields, the orb's
\* coefficients, cached angles and position buffers.
Untouched_morph ==
  /\ UNCHANGED <<xvars, wvars, cvars, avars>>
  /\ UNCHANGED <<built, baseR, coeffsTarget, unitAngles, hitPos, geoDirty>>
  /\ coeffs' = coeffsTarget
  /\ geoPos' = morphGeo(unitAngles, coeffsTarget, baseR)
Untouched == UNCHANGED <<xvars, wvars, gvars, cvars, avars>>

\* hits, pt: the intersections of the pointer's ray and the nearest's point
onPointerMove(hits, pt) ==
  /\ IF InFocusMode
       THEN PointerMoveFocus(hits, pt)
       ELSE PointerMoveBrowse(hits, pt)
  /\ Untouched

\* !panel.contains(e.target)
ClickOutside_always(inside) == TRUE
ClickOutside(inside) == ~inside

\* openProject(hoveredBlob.projectIdx): the project a click opens
ClickTarget_nav == navIdx
ClickTarget == hoveredBlob

\* if (hoveredBlob)
HasHover_always == TRUE
HasHover == hoveredBlob # NoBlob

\* inside: panel.contains(e.target)
onClick(inside) ==
  /\ IF panelOpen
       THEN IF ClickOutside(inside)
              THEN /\ closePanel
                   /\ fx' = <<Call("closePanel", NoBlob), playClose>>
              ELSE /\ fx' = << >>
                   /\ UNCHANGED <<panelOpen, focusedIdx>>
       ELSE IF HasHover
              THEN /\ openProject(ClickTarget)
                   /\ fx' = <<playClick, Call("openProject", ClickTarget)>>
              ELSE /\ fx' = << >>
                   /\ UNCHANGED <<panelOpen, focusedIdx>>
  /\ UNCHANGED <<hovered, hitLocal, hoveredBlob, navIdx, labelText,
                 labelShow, navOver>>
  /\ Untouched

\* openProject(b.projectIdx), b owning hits[0].object
TapTarget_hovered(hits) == hoveredBlob
TapTarget(hits) == hits[1]

\* hasTouch: e.changedTouches is non-empty; inside: panel.contains(el)
onTouchTap(hasTouch, inside, hits) ==
  /\ IF ~hasTouch
       THEN /\ fx' = << >>
            /\ UNCHANGED <<panelOpen, focusedIdx>>
       ELSE IF panelOpen
              THEN IF ~inside
                     THEN /\ closePanel
                          /\ fx' = <<Call("closePanel", NoBlob), playClose>>
                     ELSE /\ fx' = << >>
                          /\ UNCHANGED <<panelOpen, focusedIdx>>
              ELSE IF Len(hits) > 0
                     THEN /\ openProject(TapTarget(hits))
                          /\ fx' = <<playClick,
                                     Call("openProject", TapTarget(hits))>>
                     ELSE /\ fx' = << >>
                          /\ UNCHANGED <<panelOpen, focusedIdx>>
  /\ UNCHANGED <<hovered, hitLocal, hoveredBlob, navIdx, labelText,
                 labelShow, navOver>>
  /\ Untouched

\* highlightOrb(idx), called with idx = the new navIdx
highlightOrb(idx) ==
  /\ hovered' = [i \in Orbs |->
        IF i = idx THEN TRUE
        ELSE IF i = hoveredBlob THEN FALSE
        ELSE hovered[i]]
  /\ hitLocal' = [i \in Orbs |->
        IF i = hoveredBlob THEN NoPoint ELSE hitLocal[i]]
  /\ hoveredBlob' = idx
  /\ labelText'   = textContent(projects[idx])
  /\ labelShow'   = TRUE

Keys == {"ArrowRight", "ArrowDown", "ArrowLeft", "ArrowUp", "Enter", "a"}

\* (navIdx + 1) % blobs.length
NavNext(i) == (i + 1) % Len(blobs)

\* (navIdx - 1 + blobs.length) % blobs.length
NavPrev_clamp(i) == IF i = 0 THEN 0 ELSE i - 1
NavPrev(i) == (i - 1 + Len(blobs)) % Len(blobs)

\* openProject(navIdx): the project Enter opens
EnterTarget_hovered == hoveredBlob
EnterTarget == navIdx

onKeyNav(key) ==
  /\ IF panelOpen
       THEN /\ fx' = << >>
            /\ UNCHANGED <<hovered, hitLocal, hoveredBlob, navIdx, panelOpen,
                           focusedIdx, labelText, labelShow>>
       ELSE IF key \in {"ArrowRight", "ArrowDown"}
              THEN /\ navIdx' = NavNext(navIdx)
                   /\ highlightOrb(navIdx')
                   /\ fx' = <<playHover>>
                   /\ UNCHANGED <<panelOpen, focusedIdx>>
       ELSE IF key \in {"ArrowLeft", "ArrowUp"}
              THEN /\ navIdx' = NavPrev(navIdx)
                   /\ highlightOrb(navIdx')
                   /\ fx' = <<playHover>>
                   /\ UNCHANGED <<panelOpen, focusedIdx>>
       ELSE IF key = "Enter"
              THEN /\ openProject(EnterTarget)
                   /\ fx' = <<playClick, Call("openProject", EnterTarget)>>
                   /\ UNCHANGED <<hovered, hitLocal, hoveredBlob, navIdx,
                                  labelText, labelShow>>
       ELSE /\ fx' = << >>
            /\ UNCHANGED <<hovered, hitLocal, hoveredBlob, navIdx, panelOpen,
                           focusedIdx, labelText, labelShow>>
  /\ UNCHANGED navOver
  /\ Untouched

\* --------------------------------------------------------------- nav.js
navClick(idx) ==
  /\ openProject(idx)
  /\ fx' = <<playClick, Call("openProject", idx)>>
  /\ UNCHANGED <<hovered, hitLocal, hoveredBlob, navIdx, labelText,
                 labelShow, navOver>>
  /\ Untouched

navMouseEnter(idx) ==
  /\ hovered'   = [hovered EXCEPT ![idx] = TRUE]
  /\ navOver'   = idx
  /\ fx'        = <<playHover>>
  /\ UNCHANGED <<hitLocal, hoveredBlob, navIdx, panelOpen, focusedIdx,
                 labelText, labelShow>>
  /\ Untouched

navMouseLeave(idx) ==
  /\ hovered'   = [hovered EXCEPT ![idx] = FALSE]
  /\ navOver'   = NoBlob
  /\ fx'        = << >>
  /\ UNCHANGED <<hitLocal, hoveredBlob, navIdx, panelOpen, focusedIdx,
                 labelText, labelShow>>
  /\ Untouched

\* ------------------------------------------------- events of the browser
\* The canvas receives pointer events only while the mouse is not over a
\* side-nav item; a nav item is left only after it was entered.  Every
\* event records the hovered orb it found and whether the history is still
\* one of browse-mode pointer moves only.
Ghost(ev, stillPointerOnly) ==
  /\ lastEv'      = ev
  /\ prevBlob'    = hoveredBlob
  /\ pointerOnly' = (pointerOnly /\ stillPointerOnly)

PointerMove ==
  /\ navOver = NoBlob
  /\ \E hits \in HitLists, pt \in WorldPts : onPointerMove(hits, pt)
  /\ Ghost("pointermove", ~panelOpen)

Click ==
  /\ navOver = NoBlob
  /\ \E inside \in BOOLEAN : onClick(inside)
  /\ Ghost("click", FALSE)

\* a tap raycasts only when it finds the panel closed, and looks up the
\* element under the touch only when it finds the panel open
TouchTap ==
  /\ \/ onTouchTap(FALSE, FALSE, << >>)
     \/ panelOpen /\ \E inside \in BOOLEAN : onTouchTap(TRUE, inside, << >>)
     \/ ~panelOpen /\ \E hits \in HitLists : onTouchTap(TRUE, FALSE, hits)
  /\ Ghost("touchend", FALSE)

KeyDown ==
  /\ \E key \in Keys : onKeyNav(key)
  /\ Ghost("keydown", FALSE)

NavClick ==
  /\ navOver \in Orbs
  /\ navClick(navOver)
  /\ Ghost("navclick", FALSE)

NavEnter ==
  /\ navOver = NoBlob
  /\ \E idx \in Orbs : navMouseEnter(idx)
  /\ Ghost("mouseenter", FALSE)

NavLeave ==
  /\ navOver \in Orbs
  /\ navMouseLeave(navOver)
  /\ Ghost("mouseleave", FALSE)

Next ==
  \/ PointerMove
  \/ Click
  \/ TouchTap
  \/ KeyDown
  \/ NavClick
  \/ NavEnter
  \/ NavLeave

Spec == Init /\ [][Next]_vars

\* -------------------------------------------------------------- orbs.js
\* The wave fields are those of one orb, blobs[WaveOrb]: updateWaveRipple(b)
\* and startWave(b) read and write the fields of b alone.
WaveOrb   == CHOOSE b \in Orbs : \A c \in Orbs : b <= c
WaveFade  == 5          \* b.waveElapsed > 2.5, in half seconds
NoWave    == 0 - 20     \* uWaveTime.value = -10.0, in half seconds
Dts       == 1..MaxDt

\* !b.hovered && b.waveElapsed > 2.5, waveElapsed already advanced to el
WaveOver_atThreshold(hov, el) == ~hov /\ el >= WaveFade
WaveOver(hov, el) == ~hov /\ el > WaveFade

\* updateWaveRipple(b, dt): the wave fields of orb b after the call
updateWaveRipple(b, dt) ==
  IF ~waveActive
    THEN [waveActive |-> waveActive, waveElapsed |-> waveElapsed,
          uWaveTime |-> uWaveTime, uHitPoint |-> uHitPoint]
    ELSE LET el == waveElapsed + dt IN
         [waveActive  |-> ~WaveOver(hovered[b], el),
          waveElapsed |-> el,
          uWaveTime   |-> IF WaveOver(hovered[b], el) THEN NoWave ELSE el,
          uHitPoint   |-> IF hitLocal[b] # NoPoint THEN hitLocal[b][1]
                          ELSE uHitPoint]

\* startWave(b), b.hitLocal being hl: the wave fields of orb b after the call
startWave_keepElapsed(b, hl) ==
  [waveActive  |-> TRUE,
   waveElapsed |-> waveElapsed,
   uWaveTime   |-> uWaveTime,
   uHitPoint   |-> IF hl # NoPoint THEN hl[1] ELSE uHitPoint]
startWave(b, hl) ==
  [waveActive  |-> TRUE,
   waveElapsed |-> 0,
   uWaveTime   |-> uWaveTime,
   uHitPoint   |-> IF hl # NoPoint THEN hl[1] ELSE uHitPoint]

\* One frame of the animation loop: the orb's ripple advances by dt.
WaveTick ==
  \E dt \in Dts :
    /\ clock + dt <= MaxClock
    /\ clock' = clock + dt
    /\ LET w == updateWaveRipple(WaveOrb, dt)
       IN  /\ waveActive'  = w.waveActive
           /\ waveElapsed' = w.waveElapsed
           /\ uWaveTime'   = w.uWaveTime
           /\ uHitPoint'   = w.uHitPoint
    /\ UNCHANGED <<waveStartAt, hoverEndAt>>
    /\ UNCHANGED <<xvars, rvars, gvars, cvars, avars>>

\* A browse-mode pointer move between frames: a hover-start of the orb
\* starts its wave, its hover-end is timed.
WavePointer ==
  /\ \E hits \in HitLists, pt \in WorldPts : PointerMoveBrowse(hits, pt)
  /\ UNCHANGED <<prevBlob, pointerOnly, lastEv>>
  /\ IF hovered'[WaveOrb] /\ ~hovered[WaveOrb]
       THEN LET w == startWave(WaveOrb, hitLocal'[WaveOrb])
            IN  /\ waveActive'  = w.waveActive
                /\ waveElapsed' = w.waveElapsed
                /\ uWaveTime'   = w.uWaveTime
                /\ uHitPoint'   = w.uHitPoint
                /\ waveStartAt' = clock
                /\ hoverEndAt'  = NoBlob
       ELSE /\ UNCHANGED <<waveActive, waveElapsed, uWaveTime, uHitPoint,
                           waveStartAt>>
            /\ hoverEndAt' = IF hovered[WaveOrb] /\ ~hovered'[WaveOrb]
                               THEN clock ELSE hoverEndAt
  /\ UNCHANGED <<xvars, clock, gvars, cvars, avars>>

NextWave ==
  \/ WavePointer
  \/ WaveTick

SpecWave == Init /\ [][NextWave]_vars

\* ---------------------------------------------------- building the orb
\* blobs is empty until createOrbs runs
InitShape ==
  /\ InitInteraction
  /\ InitCalls
  /\ InitAnimation
  /\ labelTotalDots = MaxDots
  /\ InitBuilt
  /\ InitRest
  /\ built        = FALSE
  /\ baseR        = 0
  /\ coeffs       = << >>
  /\ coeffsTarget = << >>
  /\ unitAngles   = << >>
  /\ geoPos       = << >>
  /\ hitPos       = << >>
  /\ geoDirty     = FALSE

\* createOrbs builds the orb
CreateOrb ==
  /\ ~built
  /\ \E k \in Rnds, rnd \in Streams, rnd2 \in TargetStreams :
       LET o == createOrbs(k, rnd, rnd2)
       IN  /\ built'        = TRUE
           /\ baseR'        = o.baseR
           /\ coeffs'       = o.coeffs
           /\ coeffsTarget' = o.coeffsTarget
           /\ unitAngles'   = o.unitAngles
           /\ geoPos'       = o.geoPos
           /\ hitPos'       = o.hitPos
           /\ geoDirty'     = o.geoDirty
  /\ UNCHANGED <<xvars, rvars, wvars, cvars, avars>>

\* A call shDeform(theta, phi, b.coeffs); the first call on the current
\* coefficients is kept, and whether its arguments were passed again.
DeformCall(theta, phi) ==
  /\ built
  /\ LET call == [theta |-> theta, phi |-> phi,
                  r |-> shDeform(theta, phi, coeffs)]
     IN  /\ shCall' = <<call>>
         /\ shSeen' = IF shSeen = << >>
                        THEN <<[call |-> call, again |-> FALSE]>>
                      ELSE IF shSeen[1].call.theta = theta
                              /\ shSeen[1].call.phi = phi
                        THEN <<[call |-> shSeen[1].call, again |-> TRUE]>>
                      ELSE shSeen
  /\ UNCHANGED <<xvars, rvars, wvars, gvars, avars, rcCall>>

\* morphGeo calls shDeform with the cached angles of a vertex
Deform ==
  \E v \in 1..(Len(unitAngles) \div 2) :
    DeformCall(unitAngles[2 * v - 1], unitAngles[2 * v])

\* The frame in which lerpT reaches 1: the target becomes the current
\* coefficients, a fresh target is drawn, and both meshes are morphed.
FrameMorph ==
  /\ built
  /\ \E rnd2 \in TargetStreams :
       coeffsTarget' = randomCoeffs(baseR, (baseR * 35) \div 100, rnd2)
  /\ LET vis == morphGeoEffect(unitAngles, coeffsTarget, baseR)
         hit == morphGeoEffect(anglesOf(HitSphere), vis.coeffs, baseR)
     IN  /\ coeffs'     = hit.coeffs
         /\ unitAngles' = vis.unitAngles
         /\ geoPos'     = vis.position
         /\ hitPos'     = hit.position
         /\ geoDirty'   = (vis.needsUpdate /\ hit.needsUpdate)
  /\ shSeen'   = << >>
  /\ UNCHANGED <<built, baseR, shCall, rcCall>>
  /\ UNCHANGED <<xvars, rvars, wvars, avars>>

NextShape ==
  \/ CreateOrb
  \/ Deform
  \/ FrameMorph

SpecShape == InitShape /\ [][NextShape]_vars

\* ------------------------------------------- calls of randomCoeffs
Bases == {0 - 1, 0, 3}
Amps  == 0..2

RandomCoeffsCall ==
  /\ \E base \in Bases, amp \in Amps, rnd \in Streams :
       rcCall' = <<[base |-> base, amp |-> amp,
                    out  |-> randomCoeffs(base, amp, rnd)]>>
  /\ UNCHANGED <<xvars, rvars, wvars, gvars, avars, shCall, shSeen>>

SpecCoeffs == Init /\ [][RandomCoeffsCall]_vars


\* ------------------------------------------------- main.js: the startup
\* the names a project descriptor may carry
ProjectNames == {"About Me", "Flex Platform", "Neural Canvas"}

\* project descriptors, with and without a name
Descriptors ==
  {[name |-> n, tag |-> "t"] : n \in ProjectNames} \cup {[tag |-> "t"]}

\* nothing has run yet: blobs = [], and the project data is any list of
\* at most NumOrbs descriptors
InitBuild ==
  /\ InitInteraction
  /\ built        = FALSE
  /\ baseR        = 0
  /\ coeffs       = << >>
  /\ coeffsTarget = << >>
  /\ unitAngles   = << >>
  /\ geoPos       = << >>
  /\ hitPos       = << >>
  /\ geoDirty     = FALSE
  /\ InitCalls
  /\ InitAnimation
  /\ labelTotalDots = MaxDots
  /\ projects \in UNION {[0..(n - 1) -> Descriptors] : n \in 0..NumOrbs}
  /\ blobs    = << >>
  /\ started  = FALSE
  /\ raised   = FALSE
  /\ InitRest

\* The geometry followed is that of the first orb, its draws being 0.5 for
\* baseR and coeffs and 0 for coeffsTarget.
\* main.js from createOrbs() to initInteraction(): a TypeError thrown by
\* createOrbs is caught nowhere and ends the module, so that initNav and
\* initInteraction install no listener
Startup ==
  /\ ~started
  /\ LET r == createOrbsFrom(projects, 0, << >>)
     IN  /\ blobs'  = r.blobs
         /\ raised' = r.threw
  /\ started' = TRUE
  /\ IF createOrbsFrom(projects, 0, << >>).blobs # << >>
       THEN LET o == createOrbs(RndDen \div 2, MidStream,
                                [i \in 1..(N_COEFFS - 1) |-> 0])
            IN  /\ built'        = TRUE
                /\ baseR'        = o.baseR
                /\ coeffs'       = o.coeffs
                /\ coeffsTarget' = o.coeffsTarget
                /\ unitAngles'   = o.unitAngles
                /\ geoPos'       = o.geoPos
                /\ hitPos'       = o.hitPos
                /\ geoDirty'     = o.geoDirty
       ELSE UNCHANGED gvars
  /\ UNCHANGED <<projects, rvars, wvars, cvars, avars, yvars>>

\* the listeners initInteraction installed
Listening == started /\ ~raised

\* with no orb, (navIdx + 1) % blobs.length is NaN: the arrow keys are
\* followed only when there is an orb to highlight
NextBuild ==
  \/ Startup
  \/ Listening /\ PointerMove
  \/ Listening /\ Click
  \/ Listening /\ TouchTap
  \/ Listening /\ Len(blobs) > 0 /\ KeyDown

SpecBuild == InitBuild /\ [][NextBuild]_vars


\* ------------------------------------------------------------ orbfx.js
\* blobs.forEach((b, i) => { updaters[i](data, b, t, dt); recolorFx(...) })
\* from orb i on: an exception thrown by updaters[i] leaves the callback,
\* the forEach and updateOrbFx, nothing catching it; done holds the orbs
\* updated and recoloured so far.
RECURSIVE forEachFx(_, _, _)
forEachFx(i, faulty, done) ==
  IF i \notin Orbs
    THEN [done |-> done, threw |-> FALSE]
    ELSE IF i \in faulty
      THEN [done |-> done, threw |-> TRUE]
      ELSE forEachFx(i + 1, faulty, done \cup {i})

\* updateOrbFx(t, dt), faulty the orbs whose updater throws this time
updateOrbFx(t, faulty) ==
  LET r == forEachFx(0, faulty, {})
  IN  /\ fxT'      = t
      /\ fxTime'   = [i \in Orbs |-> IF i \in r.done THEN t ELSE fxTime[i]]
      /\ fxFaulty' = faulty
      /\ fxThrew'  = r.threw
      /\ UNCHANGED <<rvars, wvars, gvars, cvars, avars, bvars, tvars,
                     ivars>>

UpdateOrbFx ==
  \E dt \in Dts, faulty \in SUBSET Orbs :
    /\ fxT + dt <= MaxClock
    /\ updateOrbFx(fxT + dt, faulty)

SpecFx == Init /\ [][UpdateOrbFx]_vars


\* ---------------------------------------------------------- terminal.js
MaxBatches == 3     \* batches pushed in one run
MaxLines   == 2     \* lines of a batch that are followed

\* the functions that push a batch
Pushers == {"runBootSequence", "showOrbCode", "clearTerminal",
            "showShaderCompile"}

\* batch.lines.length: BOOT_LINES, genMachineCode without techs, the three
\* lines of clearTerminal, the lines of showShaderCompile; a batch is
\* followed for its first MaxLines lines
lineCount(fn) ==
  LET len == CASE fn = "runBootSequence"   -> 20
               [] fn = "showOrbCode"       -> 21
               [] fn = "clearTerminal"     -> 3
               [] OTHER                    -> 13
  IN  IF len > MaxLines THEN MaxLines ELSE len

\* the batch a function pushes, id its rank among the batches pushed;
\* only runBootSequence passes a resolve
batchOf(fn, id) ==
  [id |-> id, from |-> fn, n |-> lineCount(fn),
   resolve |-> (fn = "runBootSequence")]

\* appendLine(item.text) for line k of batch b
appendLine(log, b, k) == Append(log, [id |-> b.id, line |-> k, n |-> b.n])

\* if (typing) return
alreadyTyping_never == FALSE
alreadyTyping == typing

\* while (queue.length > 0)
moreQueued_never(q) == FALSE
moreQueued(q) == Len(q) > 0

\* processQueue() up to its first await, q being the queue it finds: it
\* returns at once when a loop is typing; else it sets typing, shifts the
\* first batch, appends its first line and waits for typeText
processQueue(q) ==
  IF alreadyTyping
    THEN /\ queue' = q
         /\ UNCHANGED <<typing, loops, lineLog>>
    ELSE /\ typing'  = TRUE
         /\ queue'   = Tail(q)
         /\ lineLog' = appendLine(lineLog, Head(q), 1)
         /\ loops'   = Append(loops,
                          [batch |-> Head(q), line |-> 1, at |-> "typeText"])

\* runBootSequence(), showOrbCode(idx), clearTerminal(),
\* showShaderCompile(toDark): queue.push({lines, resolve}); processQueue()
push(fn) ==
  /\ pushed < MaxBatches
  /\ pushed' = pushed + 1
  /\ processQueue(Append(queue, batchOf(fn, pushed + 1)))
  /\ UNCHANGED resolved
  /\ UNCHANGED <<rvars, wvars, gvars, cvars, avars, bvars, fvars, ivars>>

Push == \E fn \in Pushers : push(fn)

\* loop i without its record
dropLoop(i) == [j \in 1..(Len(loops) - 1) |->
                  IF j < i THEN loops[j] ELSE loops[j + 1]]

\* typeText's promise resolves (its interval has shown the last character,
\* or the text is empty): loop i goes on to await sleep(...)
typeTextDone(i) ==
  /\ loops[i].at = "typeText"
  /\ loops' = [loops EXCEPT ![i].at = "sleep"]
  /\ UNCHANGED <<queue, typing, lineLog, pushed, resolved>>
  /\ UNCHANGED <<rvars, wvars, gvars, cvars, avars, bvars, fvars, ivars>>

\* the timer of sleep fires: loop i takes the next line of its batch; after
\* the last line it calls batch.resolve and takes the next batch of the
\* queue, or, the queue being empty, shows the cursor, clears typing and
\* ends
sleepDone(i) ==
  LET l == loops[i]
      b == l.batch
  IN  /\ l.at = "sleep"
      /\ IF l.line < b.n
           THEN /\ lineLog' = appendLine(lineLog, b, l.line + 1)
                /\ loops'   = [loops EXCEPT ![i].line = l.line + 1,
                                             ![i].at = "typeText"]
                /\ UNCHANGED <<queue, typing, resolved>>
           ELSE /\ resolved' = IF b.resolve THEN resolved \cup {b.id}
                                            ELSE resolved
                /\ IF moreQueued(queue)
                     THEN /\ queue'   = Tail(queue)
                          /\ lineLog' = appendLine(lineLog, Head(queue), 1)
                          /\ loops'   = [loops EXCEPT
                                           ![i] = [batch |-> Head(queue),
                                                   line  |-> 1,
                                                   at    |-> "typeText"]]
                          /\ UNCHANGED typing
                     ELSE /\ typing' = FALSE
                          /\ loops'  = dropLoop(i)
                          /\ UNCHANGED <<queue, lineLog>>
      /\ UNCHANGED pushed
      /\ UNCHANGED <<rvars, wvars, gvars, cvars, avars, bvars, fvars, ivars>>

TypeTextDone == \E i \in DOMAIN loops : typeTextDone(i)
SleepDone    == \E i \in DOMAIN loops : sleepDone(i)

\* a timer of the typing engine fires
TimerFires == TypeTextDone \/ SleepDone

NextTerminal ==
  \/ Push
  \/ TypeTextDone
  \/ SleepDone

\* the browser fires every timer that has been set
SpecTerminal == Init /\ [][NextTerminal]_vars /\ WF_vars(TimerFires)


\* ------------------------------------------------------------- intro.js
\* Times are in units of 1 / IntroOne s; the progress t of an orb is in
\* units of 1 / INTRO_DURATION, so that t = 1 is INTRO_DURATION.
IntroOne       == 100
INTRO_DURATION == 220
STAGGER        == 15
MaxIntroDt     == 50
IntroDts       == {1, 16, MaxIntroDt}

\* const startAt = i * STAGGER
startAt_none(i) == 0
startAt(i) == i * STAGGER

\* (introT - startAt) / INTRO_DURATION, times INTRO_DURATION
local(T, i) == T - startAt(i)

\* Math.min(local, 1), times INTRO_DURATION
introProgress(T, i) ==
  IF local(T, i) < INTRO_DURATION THEN local(T, i) ELSE INTRO_DURATION

\* updateIntro(dt)
updateIntro(dt) ==
  /\ IF introDone
       THEN /\ introRet' = FALSE
            /\ introTouched' = {}
            /\ UNCHANGED <<introT, introDone, introP>>
       ELSE LET T       == introT + dt
                moving  == {i \in Orbs : local(T, i) > 0}
                allDone == \A i \in Orbs :
                             i \in moving /\ introProgress(T, i) >= INTRO_DURATION
            IN  /\ introT' = T
                /\ introP' = [i \in Orbs |->
                                IF i \in moving THEN introProgress(T, i)
                                ELSE introP[i]]
                /\ introTouched' = moving
                /\ introDone' = allDone
                /\ introRet'  = ~allDone
  /\ UNCHANGED <<rvars, wvars, gvars, cvars, avars, bvars, fvars, tvars>>

\* one frame of the animation loop calls updateIntro(dt)
UpdateIntro == \E dt \in IntroDts : updateIntro(dt)

SpecIntro == Init /\ [][UpdateIntro]_vars

\* --------------------------------------------------- the frame loop
\* hoverT is in units of 1 / HoverOne; HoverOne is a power of RateDen, so
\* that MaxFrames easing steps are exact.
RECURSIVE Pow(_, _)
Pow(a, n) == IF n = 0 THEN 1 ELSE a * Pow(a, n - 1)
HoverOne == Pow(RateDen, MaxFrames)
Rates    == 1..(RateDen - 1)
DotRate  == 2       \* dots the typewriter reveals per frame

\* hoverT += (target - hoverT) * rate, rate = k / RateDen
easeHover_snap(h, hov, k) == IF hov THEN HoverOne ELSE 0
easeHover(h, hov, k) ==
  LET target == IF hov THEN HoverOne ELSE 0
  IN  h + ((target - h) * k) \div RateDen

\* the typewriter of a frame: the fields after it, open telling whether
\* the panel is open on the orb
typeLabel_noCap(open) ==
  [labelRevealed   |-> IF open THEN labelRevealed + DotRate ELSE labelRevealed,
   labelRevealDone |-> open /\ labelRevealed + DotRate >= labelTotalDots,
   labelTyping     |-> open]
typeLabel(open) ==
  IF ~open
    THEN [labelRevealed   |-> labelRevealed,
          labelRevealDone |-> labelRevealDone,
          labelTyping     |-> FALSE]
    ELSE LET from == IF labelTyping THEN labelRevealed ELSE 0
             to   == IF from + DotRate >= labelTotalDots
                       THEN labelTotalDots ELSE from + DotRate
         IN  [labelRevealed   |-> to,
              labelRevealDone |-> to = labelTotalDots,
              labelTyping     |-> TRUE]

\* One frame: the orb's hoverT eases toward its hovered flag and its label
\* is typed while the panel is open on it.
AnimTick(k) ==
  /\ frame < MaxFrames
  /\ frame' = frame + 1
  /\ hoverT' = easeHover(hoverT, hovered[WaveOrb], k)
  /\ LET t == typeLabel(panelOpen /\ focusedIdx = WaveOrb)
     IN  /\ labelRevealed'   = t.labelRevealed
         /\ labelRevealDone' = t.labelRevealDone
         /\ labelTyping'     = t.labelTyping
  /\ UNCHANGED labelTotalDots
  /\ UNCHANGED <<xvars, rvars, wvars, gvars, cvars>>

Frame == \E k \in Rates : AnimTick(k)

InitAnim ==
  /\ InitInteraction
  /\ InitGeometry
  /\ InitCalls
  /\ InitAnimation
  /\ InitBuilt
  /\ InitRest

NextAnim ==
  \/ PointerMove
  \/ Click
  \/ Frame

SpecAnim == InitAnim /\ [][NextAnim]_vars

\* =============================================================== claims
HoveredSet    == {i \in Orbs : hovered[i]}
HoverCues(f)  == Cardinality({k \in 1..Len(f) : f[k] = playHover})
Opens(f)      == {k \in 1..Len(f) : f[k].call = "openProject"}
PointerEvent  == PointerMove \/ Click \/ TouchTap

\* C1: in browse mode, after any sequence of pointer moves and nothing else,
\* at most one orb has hovered = true.
C1_HoverExclusive ==
  pointerOnly => Cardinality(HoveredSet) <= 1

\* the pointer has moved from one orb onto another
C1_Witness ==
  /\ pointerOnly
  /\ lastEv = "pointermove"
  /\ hoveredBlob \in Orbs
  /\ hovered[hoveredBlob]
  /\ prevBlob \in Orbs \ {hoveredBlob}

\* C2: while the panel is open for orb k, no pointer move, click or touch
\* tap turns hovered from false to true on an orb other than k.
C2_FocusIsolation ==
  [][(panelOpen /\ PointerEvent) =>
       \A j \in Orbs \ {focusedIdx} : hovered'[j] => hovered[j]]_vars

\* a focus-mode pointer move has hovered the focused orb, and only it
C2_Witness ==
  /\ panelOpen
  /\ lastEv = "pointermove"
  /\ focusedIdx \in Orbs
  /\ HoveredSet = {focusedIdx}
  /\ hitLocal[focusedIdx] # NoPoint
  /\ hoveredBlob = NoBlob

\* C3 as stated: after the hover-end at t0 the wave stays active at every
\* tick up to 2.5 s after t0, however long the hover lasted.
C3_ActiveUntilFadeAfterHoverEnd ==
  (waveStartAt # NoBlob /\ hoverEndAt # NoBlob /\ ~hovered[WaveOrb]
     /\ clock - hoverEndAt <= WaveFade)
  => waveActive

\* C3 amended: a started wave is inactive exactly when the orb is not
\* hovered, a tick has run since the hover-end, and more than 2.5 s have
\* passed since startWave (not since the hover-end).
C3_WaveLifecycle ==
  waveStartAt # NoBlob =>
    (waveActive <=> ~(/\ ~hovered[WaveOrb]
                      /\ clock > hoverEndAt
                      /\ clock - waveStartAt > WaveFade))

\* the wave has ended within 2.5 s of the end of a hover longer than 2.5 s
C3_Witness ==
  /\ waveStartAt # NoBlob
  /\ hoverEndAt # NoBlob
  /\ hoverEndAt - waveStartAt > WaveFade
  /\ clock - hoverEndAt <= WaveFade
  /\ ~waveActive
  /\ uWaveTime = NoWave

\* C4: in browse mode a pointer move whose nearest hit is an orb b other
\* than the hovered orb a leaves a not hovered with no hit point, b hovered
\* with the local-space hit point, and the label showing b's project name.
C4_HoverTransition ==
  [][\A hits \in HitLists, pt \in WorldPts :
       (/\ ~panelOpen
        /\ Len(hits) > 0
        /\ hoveredBlob \in Orbs
        /\ hovered[hoveredBlob]
        /\ hits[1] # hoveredBlob
        /\ onPointerMove(hits, pt))
       => LET a == hoveredBlob
              b == hits[1]
          IN  /\ ~hovered'[a]
              /\ hitLocal'[a] = NoPoint
              /\ hovered'[b]
              /\ hitLocal'[b] = <<pt - ORB_ORIGINS[b]>>
              /\ labelText' = PROJECTS[b].name]_vars

\* the pointer came from orb a onto orb b, whose world anchor is not 0
C4_Witness ==
  /\ ~panelOpen
  /\ lastEv = "pointermove"
  /\ prevBlob \in Orbs
  /\ hoveredBlob \in Orbs \ {prevBlob}
  /\ ORB_ORIGINS[hoveredBlob] # 0
  /\ hovered[hoveredBlob]
  /\ hitLocal[hoveredBlob] # NoPoint
  /\ ~hovered[prevBlob]
  /\ labelText = PROJECTS[hoveredBlob].name

\* C5: over browse-mode pointer moves, each move plays the hover cue once
\* for every orb whose hovered turns true in it and not at all otherwise,
\* so the cues played equal the hover transitions onto an orb.
C5_HoverCueOncePerTransition ==
  [][\A hits \in HitLists, pt \in WorldPts :
       (pointerOnly /\ ~panelOpen /\ onPointerMove(hits, pt))
       => HoverCues(fx') =
            Cardinality({b \in Orbs : hovered'[b] /\ ~hovered[b]})]_vars

\* a pointer move has kept the same orb hovered and played no cue
C5_Witness ==
  /\ pointerOnly
  /\ lastEv = "pointermove"
  /\ hoveredBlob \in Orbs
  /\ prevBlob = hoveredBlob
  /\ hovered[hoveredBlob]
  /\ fx = << >>

C7_FocusedHitBehindOthers ==
  [][\A hits \in HitLists, pt \in WorldPts :
       (/\ panelOpen
        /\ focusedIdx \in Orbs
        /\ \E k \in 1..Len(hits) : hits[k] = focusedIdx
        /\ onPointerMove(hits, pt))
       => /\ hovered'[focusedIdx]
          /\ hitLocal'[focusedIdx] = <<pt - ORB_ORIGINS[focusedIdx]>>]_vars

\* C7 amended: in focus mode for orb i a pointer move hovers orb i and
\* records the hit point exactly when the nearest intersection is orb i's
\* hit mesh; otherwise it clears orb i's hit point and changes no hovered
\* flag.  No other orb's hovered or hit point changes.
C7_FocusNearestOnly ==
  [][\A hits \in HitLists, pt \in WorldPts :
       (panelOpen /\ focusedIdx \in Orbs /\ onPointerMove(hits, pt))
       => LET f == focusedIdx IN
          /\ IF Len(hits) > 0 /\ hits[1] = f
               THEN hovered'[f] /\ hitLocal'[f] = <<pt - ORB_ORIGINS[f]>>
               ELSE hovered'[f] = hovered[f] /\ hitLocal'[f] = NoPoint
          /\ \A j \in Orbs \ {f} :
               hovered'[j] = hovered[j] /\ hitLocal'[j] = hitLocal[j]]_vars

\* a focus-mode pointer move found the focused orb not nearest: the orb
\* hovered earlier keeps hovered but has lost its hit point
C7_Witness ==
  /\ panelOpen
  /\ lastEv = "pointermove"
  /\ focusedIdx \in Orbs
  /\ navOver = NoBlob
  /\ hoveredBlob # focusedIdx
  /\ hovered[focusedIdx]
  /\ hitLocal[focusedIdx] = NoPoint

\* C8: in browse mode a click with a hovered orb plays the click cue and
\* calls openProject with that orb's project index; a click with no
\* hovered orb opens nothing and plays no cue.
C8_ClickOpensHovered ==
  [][\A inside \in BOOLEAN :
       (~panelOpen /\ onClick(inside))
       => IF hoveredBlob \in Orbs
            THEN /\ fx' = <<playClick, Call("openProject", hoveredBlob)>>
                 /\ panelOpen'
                 /\ focusedIdx' = hoveredBlob
            ELSE /\ fx' = << >>
                 /\ ~panelOpen'
                 /\ focusedIdx' = focusedIdx]_vars

\* a click has opened the orb under the pointer, not the keyboard's orb
C8_Witness ==
  /\ lastEv = "click"
  /\ panelOpen
  /\ prevBlob \in Orbs
  /\ hovered[prevBlob]
  /\ navIdx # prevBlob
  /\ focusedIdx = prevBlob
  /\ fx = <<playClick, Call("openProject", prevBlob)>>

\* C9: in focus mode a click outside the panel closes it, a click inside
\* changes nothing, and neither calls openProject nor changes any orb's
\* hover state.
C9_FocusClick ==
  [][\A inside \in BOOLEAN :
       (panelOpen /\ onClick(inside))
       => /\ IF inside
               THEN panelOpen' /\ focusedIdx' = focusedIdx /\ fx' = << >>
               ELSE ~panelOpen'
          /\ Opens(fx') = {}
          /\ hovered' = hovered
          /\ hitLocal' = hitLocal
          /\ hoveredBlob' = hoveredBlob
          /\ navIdx' = navIdx
          /\ labelText' = labelText
          /\ labelShow' = labelShow]_vars

\* a click outside the panel has closed it, an orb being hovered
C9_Witness ==
  /\ lastEv = "click"
  /\ ~panelOpen
  /\ fx = <<Call("closePanel", NoBlob), playClose>>
  /\ HoveredSet # {}

\* C10: a touch tap leaves every orb's hovered and hitLocal and the
\* resolver's hoveredBlob unchanged; in browse mode a tap that hits an orb
\* plays the click cue and opens that orb's project, nothing else.
C10_TapNoHover ==
  [][\A hasTouch \in BOOLEAN, inside \in BOOLEAN, hits \in HitLists :
       onTouchTap(hasTouch, inside, hits)
       => /\ hovered' = hovered
          /\ hitLocal' = hitLocal
          /\ hoveredBlob' = hoveredBlob
          /\ (~panelOpen /\ hasTouch /\ Len(hits) > 0)
               => /\ fx' = <<playClick, Call("openProject", hits[1])>>
                  /\ panelOpen'
                  /\ focusedIdx' = hits[1]]_vars

\* a tap has opened an orb that is not hovered, another one being hovered
C10_Witness ==
  /\ lastEv = "touchend"
  /\ panelOpen
  /\ focusedIdx \in Orbs
  /\ fx = <<playClick, Call("openProject", focusedIdx)>>
  /\ ~hovered[focusedIdx]
  /\ hoveredBlob \in Orbs \ {focusedIdx}
  /\ prevBlob = hoveredBlob

C12_EnterOpensHighlighted ==
  [][(~panelOpen /\ onKeyNav("Enter"))
       => /\ fx' = <<playClick, Call("openProject", navIdx)>>
          /\ hoveredBlob = navIdx
          /\ hovered[navIdx]]_vars

\* C12 amended: with no panel open Enter plays the click cue and opens
\* navIdx, whichever orb is hovered; navIdx changes only in an arrow-key
\* step taken with no panel open; with a panel open a key changes neither
\* navIdx nor any hover state and opens nothing.
C12_EnterOpensNavIdx ==
  [][/\ (~panelOpen /\ onKeyNav("Enter"))
          => /\ fx' = <<playClick, Call("openProject", navIdx)>>
             /\ panelOpen'
             /\ focusedIdx' = navIdx
             /\ navIdx' = navIdx
     /\ navIdx' # navIdx
          => /\ ~panelOpen
             /\ \E key \in {"ArrowRight", "ArrowDown", "ArrowLeft", "ArrowUp"} :
                  onKeyNav(key)
     /\ \A key \in Keys :
          (panelOpen /\ onKeyNav(key))
          => /\ fx' = << >>
             /\ UNCHANGED <<navIdx, hovered, hitLocal, hoveredBlob, panelOpen,
                            focusedIdx, labelText, labelShow>>]_vars

\* Enter has opened the keyboard's orb while the pointer hovers another
C12_Witness ==
  /\ lastEv = "keydown"
  /\ panelOpen
  /\ focusedIdx = navIdx
  /\ fx = <<playClick, Call("openProject", navIdx)>>
  /\ ~hovered[navIdx]
  /\ hoveredBlob \in Orbs \ {navIdx}
  /\ hovered[hoveredBlob]

\* C17: for every base and amp >= 0, randomCoeffs(base, amp) returns 12
\* coefficients with index 0 equal to base, indices 1-3 of magnitude at
\* most 0.225 amp, indices 4-8 at most 0.30 amp, indices 9-11 at most
\* 0.175 amp.
C17_RandomCoeffsBands ==
  rcCall # << >> =>
    LET c   == rcCall[1].out
        amp == rcCall[1].amp * CoefOne
        Abs(x) == IF x < 0 THEN 0 - x ELSE x
    IN  /\ DOMAIN c = 0..11
        /\ c[0] = rcCall[1].base * CoefOne
        /\ \A i \in 1..3  : 1000 * Abs(c[i]) <= 225 * amp
        /\ \A i \in 4..8  : 1000 * Abs(c[i]) <= 300 * amp
        /\ \A i \in 9..11 : 1000 * Abs(c[i]) <= 175 * amp

\* a call with a negative base and a draw of 0 has put a coefficient of the
\* last band on its bound
C17_Witness ==
  /\ rcCall # << >>
  /\ rcCall[1].base < 0
  /\ rcCall[1].amp = 2
  /\ rcCall[1].out[0] = rcCall[1].base * CoefOne
  /\ 1000 * rcCall[1].out[11] = 0 - 175 * 2 * CoefOne

C19_SphereOfBaseR ==
  (/\ built
   /\ coeffs[0] = baseR * CoefOne
   /\ \A i \in 1..11 : coeffs[i] = 0)
  => \A v \in 1..Len(VisualSphere), k \in 1..3 :
       geoPos[v][k] = baseR * CoefOne * YOne * VisualSphere[v][k]

\* C19 amended: with coefficients all zero except index 0, morphGeo writes
\* the unit sphere scaled by baseR + 0.282 coeffs[0], for both meshes.
C19_SphereOfBaseRPlusY0 ==
  (built /\ \A i \in 1..11 : coeffs[i] = 0)
  => LET r == baseR * CoefOne * YOne + 282 * coeffs[0]
     IN  /\ \A v \in 1..Len(VisualSphere), k \in 1..3 :
              geoPos[v][k] = r * VisualSphere[v][k]
         /\ \A v \in 1..Len(HitSphere), k \in 1..3 :
              hitPos[v][k] = r * HitSphere[v][k]

\* an orb of baseR 1.525 has been built with the coefficients
\* [1.525, 0, ..., 0]
C19_Witness ==
  /\ built
  /\ baseR > RadOne
  /\ coeffs[0] = baseR * CoefOne
  /\ \A i \in 1..11 : coeffs[i] = 0
  /\ Len(geoPos) = Len(VisualSphere)
  /\ geoPos[3] = <<0, 0, baseR * CoefOne * (YOne + 282)>>

\* C20: the hit mesh and the visual mesh of an orb are morphed with the
\* same coefficients and the same baseR: every direction the two meshes
\* share has the same position in both.
C20_HitMatchesVisual ==
  built =>
    \A v \in 1..Len(VisualSphere), w \in 1..Len(HitSphere) :
      VisualSphere[v] = HitSphere[w]
      => /\ geoPos[v] = hitPos[w]
         /\ geoPos[v] =
              SphToCart(baseR * CoefOne * YOne
                          + shDeform(unitAngles[2 * v - 1], unitAngles[2 * v],
                                     coeffs),
                        unitAngles[2 * v - 1], unitAngles[2 * v])

\* after a roll-over both meshes carry the new coefficients, one of which
\* displaces the pole
C20_Witness ==
  /\ built
  /\ coeffs = coeffsTarget
  /\ coeffs[2] # 0
  /\ coeffs[5] # 0
  /\ geoPos[1] = hitPos[1]
  /\ geoPos[1][2] # baseR * CoefOne * YOne + 282 * coeffs[0]

C14_HandlersLeaveGeometry ==
  [][Next => /\ UNCHANGED <<geoPos, hitPos, unitAngles, coeffs, coeffsTarget>>
             /\ UNCHANGED <<baseR, geoDirty>>
             /\ UNCHANGED <<wvars, avars>>]_vars

\* handlers of every kind have changed the hover state and opened the
\* panel, and the geometry is the one createOrbs built
C14_Witness ==
  /\ lastEv = "keydown"
  /\ panelOpen
  /\ navOver \in Orbs
  /\ Cardinality(HoveredSet) = NumOrbs
  /\ \E i \in Orbs : hitLocal[i] # NoPoint
  /\ coeffs # coeffsTarget
  /\ geoPos = morphGeo(unitAngles, coeffs, baseR)

\* C15: in every frame hoverT moves by (target - hoverT) * rate toward
\* target = 1 if hovered else 0: it stays within [0, 1], never moves away
\* from the target nor past it, and does not reach it in one frame.
C15_HoverEase ==
  [][\A k \in Rates :
       AnimTick(k)
       => LET target == IF hovered[WaveOrb] THEN HoverOne ELSE 0
          IN  /\ hoverT \in 0..HoverOne
              /\ hoverT' \in 0..HoverOne
              /\ RateDen * hoverT' = RateDen * hoverT + (target - hoverT) * k
              /\ hoverT <= target => (hoverT <= hoverT' /\ hoverT' <= target)
              /\ hoverT >= target => (target <= hoverT' /\ hoverT' <= hoverT)
              /\ hoverT # target
                   => (hoverT' # target /\ hoverT' # hoverT)]_vars

\* hoverT rose for one frame and has fallen for one frame since the hover
\* ended
C15_Witness ==
  /\ frame = 2
  /\ ~hovered[WaveOrb]
  /\ hoverT > 0
  /\ hoverT < HoverOne
  /\ RateDen * RateDen * hoverT <= (RateDen - 1) * (RateDen - 1) * HoverOne

C21_MorphWritesPositionsOnly ==
  [][/\ CreateOrb
          => /\ unitAngles' = anglesOf(VisualSphere)
             /\ Len(unitAngles') = 2 * Len(VisualSphere)
             /\ \E rnd \in Streams :
                  coeffs' = randomCoeffs(baseR', (baseR' * 35) \div 100, rnd)
             /\ Len(geoPos') = Len(VisualSphere)
             /\ Len(hitPos') = Len(HitSphere)
             /\ geoDirty'
     /\ FrameMorph
          => /\ unitAngles' = unitAngles
             /\ coeffs' = coeffsTarget
             /\ 2 * Len(geoPos') = Len(unitAngles)
             /\ Len(hitPos') = Len(HitSphere)
             /\ geoPos' # geoPos => coeffs' # coeffs
             /\ geoDirty'
     /\ built => unitAngles' = unitAngles]_vars

\* the orb has been morphed again with other coefficients: the positions
\* have changed, the cached angles are those of its creation
C21_Witness ==
  /\ built
  /\ geoDirty
  /\ coeffs[5] # 0
  /\ coeffs[9] # 0
  /\ unitAngles = anglesOf(VisualSphere)
  /\ Len(geoPos) = 6
  /\ geoPos[2][1] # 0 - (baseR * CoefOne * YOne + 282 * coeffs[0])

\* C22: a project descriptor without a name degrades to an empty label:
\* createOrbs raises nothing and builds that orb and the later ones, and
\* the hover and keyboard labels show the name or the empty string.
C22_MissingNameDegrades ==
  started =>
    /\ ~raised
    /\ Len(blobs) = Cardinality(DOMAIN projects)
    /\ \A i \in DOMAIN projects :
         blobs[i + 1].label =
           (IF hasName(projects[i]) THEN toUpperCase(projects[i].name) ELSE "")
    /\ labelShow /\ hoveredBlob \in Orbs
         => labelText = textContent(projects[hoveredBlob])

C24_UpdatesIsolated ==
  /\ \A i \in Orbs \ fxFaulty : fxTime[i] = fxT
  /\ ~fxThrew

\* C25: the ripple goes idle -> active -> fading -> idle: the startWave of
\* a hover-start makes the wave active with waveElapsed = 0; no tick
\* deactivates the wave of a hovered orb; a tick of an inactive wave changes
\* none of its fields; a wave is deactivated only by a tick of an orb that
\* is not hovered, which sets uWaveTime to the negative no-wave value.
C25_WaveStates ==
  [][/\ (hovered'[WaveOrb] /\ ~hovered[WaveOrb])
          => waveActive' /\ waveElapsed' = 0 /\ waveStartAt' = clock
     /\ (clock' # clock /\ waveActive /\ hovered[WaveOrb])
          => waveActive' /\ waveElapsed' > waveElapsed
                         /\ uWaveTime' = waveElapsed'
     /\ (clock' # clock /\ ~waveActive)
          => UNCHANGED <<waveActive, waveElapsed, uWaveTime, uHitPoint>>
     /\ (waveActive /\ ~waveActive')
          => /\ clock' # clock
             /\ ~hovered[WaveOrb]
             /\ waveElapsed' > WaveFade
             /\ uWaveTime' = NoWave
             /\ NoWave < 0]_vars

\* the wave has been started, hovered for longer than the fade time, ended
\* by a tick after the hover-end, and ticks have found it idle since
C25_Witness ==
  /\ waveStartAt # NoBlob
  /\ hoverEndAt # NoBlob
  /\ hoverEndAt - waveStartAt > WaveFade
  /\ ~waveActive
  /\ uWaveTime = NoWave
  /\ waveElapsed < clock - waveStartAt

\* C26: at most one orb has hovered = true, whatever the interleaving of
\* pointer moves, arrow keys, side-nav mouseenter and mouseleave, and
\* focus-mode pointer moves followed by the panel closing.
C26_AtMostOneHoveredEver ==
  Cardinality(HoveredSet) <= 1

\* C27: hoveredBlob is non-null exactly when some orb has hovered = true,
\* and then that orb is hoveredBlob, so that a browse-mode click opens an
\* orb flagged hovered.
C27_HoveredBlobConsistent ==
  /\ hoveredBlob # NoBlob <=> HoveredSet # {}
  /\ hoveredBlob # NoBlob => HoveredSet = {hoveredBlob}

\* C28: terminal typing is serialised: at most one processQueue loop is
\* active, which is when typing is set; the lines appear batch after batch
\* in the order the batches were pushed, every batch whole before the next
\* one starts.
C28_TypingSerialised ==
  /\ Len(loops) <= 1
  /\ typing <=> Len(loops) = 1
  /\ Len(lineLog) > 0 => lineLog[1].id = 1 /\ lineLog[1].line = 1
  /\ \A j \in 1..(Len(lineLog) - 1) :
       LET a == lineLog[j]
           b == lineLog[j + 1]
       IN  \/ b.id = a.id /\ b.line = a.line + 1
           \/ b.id = a.id + 1 /\ b.line = 1 /\ a.line = a.n

\* a batch pushed while the first was being typed has been typed after it
C28_Witness ==
  /\ pushed = MaxBatches
  /\ Len(lineLog) = MaxBatches * MaxLines
  /\ lineLog[MaxLines + 1].id = 2
  /\ typing
  /\ queue = << >>

\* batch id has been typed to its last line
Typed(id) ==
  /\ \E j \in DOMAIN lineLog : lineLog[j].id = id /\ lineLog[j].line = lineLog[j].n
  /\ \A i \in DOMAIN loops :
       loops[i].batch.id = id
         => loops[i].line = loops[i].batch.n /\ loops[i].at = "sleep"

\* the batches of runBootSequence that wait in the queue or are being typed
BootPending ==
  {queue[j].id : j \in {k \in DOMAIN queue : queue[k].resolve}}
    \cup {loops[i].batch.id : i \in {k \in DOMAIN loops : loops[k].batch.resolve}}

\* C29: timers firing, every batch pushed is eventually typed to its last
\* line, also when it was pushed while another batch was being typed; the
\* loop ends only with the queue empty, and typing is then false; the
\* promise of runBootSequence is resolved, and only after the last boot
\* line has been typed.
C29_EveryBatchTyped ==
  /\ \A id \in 1..MaxBatches : (pushed >= id) ~> Typed(id)
  /\ \A id \in 1..MaxBatches : (id \in BootPending) ~> (id \in resolved)
  /\ [](\A id \in resolved : Typed(id))
  /\ [][Len(loops') < Len(loops) => queue' = << >> /\ ~typing']_vars
  /\ [](~typing => queue = << >>)

\* a boot sequence pushed while another batch was being typed has been
\* typed and resolved, and the loop has ended
C29_Witness ==
  /\ pushed = MaxBatches
  /\ resolved = {2}
  /\ Len(lineLog) = MaxBatches * MaxLines
  /\ ~typing
  /\ loops = << >>

\* C30: the intro terminates and latches: orb i is not written before
\* introT exceeds i * 0.15 s; introDone is set by the tick that brings
\* introT to (n - 1) * 0.15 + 2.2 s or beyond and by no tick that leaves an
\* orb's progress below 1; once set it stays set, and updateIntro then
\* returns false and writes to no orb.
C30_IntroLatches ==
  [][/\ \A i \in Orbs :
          /\ i \in introTouched' => introT' * 100 > i * 15 * IntroOne
          /\ introT' * 100 <= i * 15 * IntroOne => introP'[i] = 0
     /\ ~introDone =>
          (introDone' <=>
             introT' * 100 >= ((NumOrbs - 1) * 15 + 220) * IntroOne)
     /\ introDone' => \A i \in Orbs : introP'[i] = INTRO_DURATION
     /\ introRet' = ~introDone'
     /\ introDone =>
          /\ introDone'
          /\ ~introRet'
          /\ introTouched' = {}
          /\ UNCHANGED <<introT, introP>>]_vars

\* the intro is over and a later frame has called updateIntro again
C30_Witness ==
  /\ introDone
  /\ ~introRet
  /\ introTouched = {}
  /\ \A i \in Orbs : introP[i] = INTRO_DURATION
  /\ introT >= (NumOrbs - 1) * STAGGER + INTRO_DURATION

====
